---- MODULE Spec2Model ----
(***************************************************************************)
(* State-machine model of pysip2's interactive shell (pysip2/shell.py):    *)
(* the option and configuration loader (ConfigHandler), the command        *)
(* dispatcher (CommandRunner) and the line loop (Console).                 *)
(*                                                                         *)
(* Optional values (Python None or a value) are sequences of length 0 or 1.*)
(* Text is a sequence of characters; a multi-letter string in a line or a  *)
(* token stands for a run of ordinary word characters.                     *)
(***************************************************************************)
EXTENDS Integers, Sequences, FiniteSets, TLC

VARIABLES
    pc,               \* position of the main program
    exit_status,      \* process exit status once pc = "terminated", else -1
    exit_cause,       \* "", "SystemExit", "Traceback" or "EOF"
    argv,             \* sys.argv[1:]
    config,           \* the ConfigHandler object
    commands,         \* CommandRunner.commands: name -> [fn, desc]
    commands_sorted,  \* CommandRunner.commands_sorted
    client,           \* CommandRunner.client: NoClient or a client identity
    made,             \* number of pysip2.client.Client objects built so far
    open,             \* identities of the clients whose transport is open
    last_connect,     \* how the latest connect ended: "never", "ok", "failed", "raised"
    ran,              \* what the last execution was: "", "run" or "autostart"
    line,             \* the line handed to run by the last execution
    prev_client,      \* CommandRunner.client when the last execution began
    out,              \* what the last execution printed, in order
    calls,            \* calls the last execution made into pysip2.client
    invoked,          \* handlers the last execution entered, in order
    returned,         \* [fn, ret] of the handlers that returned, in order
    ret,              \* what the last execution returned
    exc               \* exception the last execution raised, or NoExc

vars == <<pc, exit_status, exit_cause, argv, config, commands, commands_sorted,
          client, made, open, last_connect, ran, line, prev_client, out,
          calls, invoked, returned, ret, exc>>

\* ---------------------------------------------------------------- bounds
MaxArgs == 2
MaxClients == 2
MaxArgv == 1

\* ---------------------------------------------------------------- values
None == <<>>
Some(v) == <<v>>

NoClient == 0
NoExc == "none"

\* characters of an input line
SP == " "
HASH == "#"
QUOTE == "\""

CommandNames == <<"help", "echo", "exit", "quit", "connect", "login",
                  "status", "start", "patron-info">>

\* ------------------------------------------------------------ input lines
\* Words typed in command position: the nine names, two unregistered ones
\* (one differing from a name only in case), or nothing.
HeadWords == {CommandNames[i] : i \in 1..Len(CommandNames)} \cup {"bogus", "Help"}
ArgWords == {"a", "b"}

RECURSIVE Concat(_)
Concat(ss) == IF ss = <<>> THEN <<>> ELSE Head(ss) \o Concat(Tail(ss))

ArgLists == UNION {[1..n -> ArgWords] : n \in 0..MaxArgs}
ArgText(as) == Concat([i \in 1..Len(as) |-> <<SP, as[i]>>])

Leads == {<<>>, <<SP>>}
Trails == {<<>>, <<SP>>, <<SP, HASH, "a">>, <<HASH, "a">>, <<QUOTE>>,
           <<SP, QUOTE, "a", SP, "b", QUOTE>>}

Lines ==
    {l \o w \o ArgText(as) \o t :
        l \in Leads, w \in {<<>>} \cup {<<h>> : h \in HeadWords},
        as \in ArgLists, t \in Trails}
    \cup {<<QUOTE, h, QUOTE>> : h \in HeadWords} \cup {<<QUOTE, QUOTE>>}

\* ---------------------------------------------------------------- shlex
\* shlex.split(line, comments=True): a posix-mode lexer with
\* whitespace_split set, read_token called until it yields no token.
\* st is the lexer state: "ws" (' '), "word" ('a') or "quote" ('"').
\* Result: [exc, tokens]; exc is "ValueError" for an unclosed quotation.
RECURSIVE read_tokens(_, _, _, _, _, _)
read_tokens(ln, i, st, token, quoted, toks) ==
    LET emit(j, st2) == read_tokens(ln, j, st2, <<>>, FALSE, Append(toks, token))
    IN
    IF i > Len(ln)
    THEN IF st = "quote"
         THEN [exc |-> "ValueError", tokens |-> toks]
         ELSE [exc |-> NoExc,
               tokens |-> IF token # <<>> \/ quoted THEN Append(toks, token) ELSE toks]
    ELSE LET c == ln[i] IN
      CASE st = "ws" ->
             IF c = SP
             THEN IF token # <<>> \/ quoted
                  THEN emit(i + 1, "ws")
                  ELSE read_tokens(ln, i + 1, "ws", token, quoted, toks)
             ELSE IF c = HASH
             THEN read_tokens(ln, Len(ln) + 1, "ws", token, quoted, toks)
             ELSE IF c = QUOTE
             THEN read_tokens(ln, i + 1, "quote", token, quoted, toks)
             ELSE read_tokens(ln, i + 1, "word", <<c>>, quoted, toks)
        [] st = "quote" ->
             IF c = QUOTE
             THEN read_tokens(ln, i + 1, "word", token, TRUE, toks)
             ELSE read_tokens(ln, i + 1, "quote", Append(token, c), TRUE, toks)
        [] OTHER ->
             IF c = SP
             THEN IF token # <<>> \/ quoted
                  THEN emit(i + 1, "ws")
                  ELSE read_tokens(ln, i + 1, "ws", token, quoted, toks)
             ELSE IF c = HASH
             THEN IF token # <<>> \/ quoted
                  THEN emit(Len(ln) + 1, "ws")
                  ELSE read_tokens(ln, Len(ln) + 1, "ws", token, quoted, toks)
             ELSE IF c = QUOTE
             THEN read_tokens(ln, i + 1, "quote", token, quoted, toks)
             ELSE read_tokens(ln, i + 1, "word", Append(token, c), quoted, toks)

shlex_split(ln) == read_tokens(ln, 1, "ws", <<>>, FALSE, <<>>)

\* ---------------------------------------------------------------- int()
Digits == <<"0", "1", "2", "3", "4", "5", "6", "7", "8", "9">>
IsDigit(c) == \E d \in 1..Len(Digits) : Digits[d] = c
DigitValue(c) == (CHOOSE d \in 1..Len(Digits) : Digits[d] = c) - 1

RECURSIVE Decimal(_)
Decimal(txt) ==
    IF txt = <<>> THEN 0
    ELSE 10 * Decimal(SubSeq(txt, 1, Len(txt) - 1)) + DigitValue(txt[Len(txt)])

\* int(x) for x an optional text: TypeError for None, ValueError for text
\* that is not a decimal numeral, else the number.
int(x) ==
    IF x = None THEN [exc |-> "TypeError", value |-> 0]
    ELSE IF x[1] = <<>> \/ \E k \in 1..Len(x[1]) : ~IsDigit(x[1][k])
    THEN [exc |-> "ValueError", value |-> 0]
    ELSE [exc |-> NoExc, value |-> Decimal(x[1])]

\* ------------------------------------------------------ ConfigHandler
DefaultConfigFile == "pysip2-client.ini"
OtherConfigFile == "other.ini"

\* ConfigHandler.__init__: location_code is not an attribute until setup
\* assigns it.
ConfigHandler_init ==
    [configfile |-> DefaultConfigFile, server |-> None, port |-> None,
     institution |-> None, username |-> None, password |-> None,
     autostart |-> FALSE, has_location_code |-> FALSE, location_code |-> None]

\* Command-line arguments: "-c" stands for "-c other.ini", "-x" for an
\* option getopt does not know.
Options == {"-h", "-a", "-c", "-x"}
Argvs == UNION {[1..n -> Options] : n \in 0..MaxArgv}

\* The loop of read_ops over the parsed options, from option i on.
\* Result: [conf, usage]; usage is TRUE when -h called usage().
RECURSIVE read_ops_loop(_, _, _)
read_ops_loop(conf, opts, i) ==
    IF i > Len(opts) THEN [conf |-> conf, usage |-> FALSE]
    ELSE IF opts[i] = "-h" THEN [conf |-> conf, usage |-> TRUE]
    ELSE IF opts[i] = "-a"
    THEN read_ops_loop([conf EXCEPT !.autostart = TRUE], opts, i + 1)
    ELSE read_ops_loop([conf EXCEPT !.configfile = OtherConfigFile], opts, i + 1)

\* Contents of the configuration file: unreadable by logging.config, or
\* the keys of its [client] section (absent section: no keys at all).
PortTexts == {<<>>, <<"7", "x">>, <<"7", "0">>}
FullSection(p) ==
    [section |-> TRUE, server |-> Some("sip.example"), port |-> Some(p),
     institution |-> Some("inst"), username |-> Some("user"),
     password |-> Some("pw"), location_code |-> Some("loc")]
NoKeys(sect) ==
    [section |-> sect, server |-> None, port |-> None, institution |-> None,
     username |-> None, password |-> None, location_code |-> None]
ConfigFiles == {FullSection(p) : p \in PortTexts} \cup {NoKeys(TRUE), NoKeys(FALSE)}

\* ConfigHandler.setup once the file has been read.
setup(conf, file) ==
    IF ~file.section THEN conf
    ELSE [conf EXCEPT !.server = file.server, !.port = file.port,
                      !.institution = file.institution,
                      !.username = file.username, !.password = file.password,
                      !.has_location_code = TRUE,
                      !.location_code = file.location_code]

\* ------------------------------------------------- pysip2.client.Client
\* What the collaborator does when called; each is decided by the network
\* and the server, so an execution draws one outcome of each kind.
ConnectOutcomes == {"ok", "raise"}
LoginOutcomes == {"true", "false", "raise"}
StatusOutcomes == {"Y", "N", "raise"}
PatronOutcomes == {"resp", "raise"}
\* An instance that lost its last reference with its transport open: the
\* runtime may or may not have finalized it (closing the transport).
Reclaims == BOOLEAN

Envs == [conn : ConnectOutcomes, reclaim : Reclaims, login : LoginOutcomes,
         status : StatusOutcomes, patron : PatronOutcomes]

\* ------------------------------------------------------- CommandRunner
\* A frame is the dispatcher's state threaded through one execution,
\* together with what the execution has printed, called and returned.
Frame(c, m, o, lc) ==
    [client |-> c, made |-> m, open |-> o, last_connect |-> lc, out |-> <<>>,
     calls |-> <<>>, invoked |-> <<>>, returned |-> <<>>, ret |-> "None",
     exc |-> NoExc]

Say(f, stream, text, data) ==
    [f EXCEPT !.out = Append(@, [stream |-> stream, text |-> text, data |-> data])]
Raise(f, e) == [f EXCEPT !.exc = e]
Return(f, fn, r) ==
    [f EXCEPT !.ret = r, !.returned = Append(@, [fn |-> fn, ret |-> r])]
Enter(f, fn) == [f EXCEPT !.invoked = Append(@, fn), !.ret = "None"]
Called(f, method, outcome) ==
    [f EXCEPT !.calls = Append(@, [method |-> method, outcome |-> outcome])]

\* add_command putting the new name first instead of last.
add_command_prepend(reg, cmd, fn, desc) ==
    [sorted |-> <<cmd>> \o reg.sorted,
     map |-> [c \in DOMAIN reg.map \cup {cmd} |->
                 IF c = cmd THEN [fn |-> fn, desc |-> desc] ELSE reg.map[c]]]

add_command(reg, cmd, fn, desc) ==
    [sorted |-> Append(reg.sorted, cmd),
     map |-> [c \in DOMAIN reg.map \cup {cmd} |->
                 IF c = cmd THEN [fn |-> fn, desc |-> desc] ELSE reg.map[c]]]

\* CommandRunner.__init__: the nine registrations, in order.
Registrations ==
    <<<<"help", "help", "Display help message">>,
      <<"echo", "echo", "Echo command with arguments">>,
      <<"exit", "exit", "Exit shell">>,
      <<"quit", "exit", "Exit shell">>,
      <<"connect", "connect", "Open a network connection to the SIP server.">>,
      <<"login", "login", "Send a 93 Login request.">>,
      <<"status", "status", "Send a 99 SC Status request message.">>,
      <<"start", "start", "Shortcut for connect, login and status.">>,
      <<"patron-info", "patron_info", "Send a 63 Patron Information Request message.">>>>

RECURSIVE Register(_, _)
Register(reg, n) ==
    IF n = 0 THEN reg
    ELSE add_command(Register(reg, n - 1), Registrations[n][1],
                     Registrations[n][2], Registrations[n][3])

CommandRunner_init ==
    Register([sorted |-> <<>>, map |-> [c \in {} |-> [fn |-> "", desc |-> ""]]],
             Len(Registrations))

RECURSIVE help_lines(_, _)
help_lines(f, i) ==
    IF i > Len(commands_sorted) THEN f
    ELSE help_lines(Say(f, "stdout", "  {0} - {1}",
                        <<<<commands_sorted[i]>>,
                          <<commands[commands_sorted[i]].desc>>>>), i + 1)

help(f, args, env) ==
    Return(help_lines(Say(Enter(f, "help"), "stdout", "Commands:", <<>>), 1),
           "help", "True")

exit(f, args, env) ==
    Raise(Say(Enter(f, "exit"), "stdout", "Goodbye", <<>>), "SystemExit")

echo(f, args, env) ==
    Return(Say(Enter(f, "echo"), "stdout", "echo args={0}", args), "echo", "None")

\* connect putting the previous instance back when the new one fails.
connect_keeps_old(f, args, env) ==
    LET f0 == Enter(f, "connect")
        p == int(config.port)
    IN
    IF p.exc # NoExc THEN Raise([f0 EXCEPT !.last_connect = "raised"], p.exc)
    ELSE
      LET id == f0.made + 1
          f1 == Called([f0 EXCEPT !.made = id], "Client", "ok")
          f2 == Called(f1, "connect", env.conn)
      IN
      IF env.conn = "ok"
      THEN Return(Say([f2 EXCEPT !.client = id,
                                 !.open = (IF env.reclaim THEN @ \ {f0.client} ELSE @)
                                              \cup {id},
                                 !.last_connect = "ok"],
                      "stdout", "Connect OK", <<>>),
                  "connect", "True")
      ELSE Return([Say(f2, "stdout", "Unable to connect to server {0} port {1}",
                       <<config.server, config.port[1]>>)
                   EXCEPT !.last_connect = "failed"],
                  "connect", "False")

connect(f, args, env) ==
    LET f0 == Enter(f, "connect")
        p == int(config.port)
    IN
    IF p.exc # NoExc THEN Raise([f0 EXCEPT !.last_connect = "raised"], p.exc)
    ELSE
      LET id == f0.made + 1
          \* self.client = Client(server, port): the previous instance, if
          \* any, is no longer referenced; nothing disconnects it
          f1 == Called([f0 EXCEPT !.client = id, !.made = id,
                                  !.open = IF env.reclaim THEN @ \ {f0.client} ELSE @],
                       "Client", "ok")
          f2 == Called(f1, "connect", env.conn)
      IN
      IF env.conn = "ok"
      THEN Return(Say([f2 EXCEPT !.open = @ \cup {id}, !.last_connect = "ok"],
                      "stdout", "Connect OK", <<>>),
                  "connect", "True")
      ELSE Return([Say(f2, "stdout", "Unable to connect to server {0} port {1}",
                       <<config.server, config.port[1]>>)
                   EXCEPT !.client = NoClient, !.last_connect = "failed"],
                  "connect", "False")

\* login dropping the session handle when the server rejects the login.
login_resets(f, args, env) ==
    LET f0 == Enter(f, "login") IN
    IF f0.client = NoClient THEN Raise(f0, "AttributeError")
    ELSE IF ~config.has_location_code THEN Raise(f0, "AttributeError")
    ELSE
      LET f1 == Called(f0, "login", env.login) IN
      CASE env.login = "true" ->
             Return(Say(f1, "stdout", "Login OK", <<>>), "login", "True")
        [] env.login = "false" ->
             Return(Say([f1 EXCEPT !.client = NoClient], "stdout", "Login Failed", <<>>),
                    "login", "False")
        [] OTHER -> Raise(f1, "ClientError")

login(f, args, env) ==
    LET f0 == Enter(f, "login") IN
    IF f0.client = NoClient THEN Raise(f0, "AttributeError")
    ELSE IF ~config.has_location_code THEN Raise(f0, "AttributeError")
    ELSE
      LET f1 == Called(f0, "login", env.login) IN
      CASE env.login = "true" ->
             Return(Say(f1, "stdout", "Login OK", <<>>), "login", "True")
        [] env.login = "false" ->
             Return(Say(f1, "stdout", "Login Failed", <<>>), "login", "False")
        [] OTHER -> Raise(f1, "ClientError")

\* status taking any response for an online server.
status_any_response(f, args, env) ==
    LET f0 == Enter(f, "status") IN
    IF f0.client = NoClient THEN Raise(f0, "AttributeError")
    ELSE
      LET f1 == Called(f0, "sc_status", env.status) IN
      IF env.status = "raise" THEN Raise(f1, "ClientError")
      ELSE Return(Say(f1, "stdout", "Server is online", <<>>), "status", "True")

status(f, args, env) ==
    LET f0 == Enter(f, "status") IN
    IF f0.client = NoClient THEN Raise(f0, "AttributeError")
    ELSE
      LET f1 == Called(f0, "sc_status", env.status) IN
      CASE env.status = "Y" ->
             Return(Say(f1, "stdout", "Server is online", <<>>), "status", "True")
        [] env.status = "N" ->
             Return(Say(Say(f1, "stdout", "Server is NOT online", <<>>),
                        "stdout", "repr(resp)", <<>>), "status", "False")
        [] OTHER -> Raise(f1, "ClientError")

\* A handler called from start: start goes on only after a true return.
Passed(f) == f.exc = NoExc /\ f.ret = "True"
Fell(f) == IF f.exc # NoExc THEN f ELSE Return(f, "start", "None")

\* start without the short circuit: login and status are called whatever
\* the step before them returned.
start_eager(f, args, env) ==
    LET c == connect(Enter(f, "start"), args, env) IN
    IF c.exc # NoExc THEN c
    ELSE LET l == login(c, args, env) IN
         IF l.exc # NoExc THEN l
         ELSE Fell(status(l, args, env))

start(f, args, env) ==
    LET c == connect(Enter(f, "start"), args, env) IN
    IF ~Passed(c) THEN Fell(c)
    ELSE LET l == login(c, args, env) IN
         IF ~Passed(l) THEN Fell(l)
         ELSE Fell(status(l, args, env))

\* patron_info without the argument check.
patron_info_unchecked(f, args, env) ==
    LET f0 == Enter(f, "patron_info") IN
    IF f0.client = NoClient THEN Raise(f0, "AttributeError")
    ELSE IF Len(args) = 0 THEN Raise(f0, "IndexError")
    ELSE
      LET f1 == Called(f0, "patron_info_request", env.patron) IN
      IF env.patron = "resp"
      THEN Return(Say(f1, "stdout", "repr(resp)", <<>>), "patron_info", "True")
      ELSE Raise(f1, "ClientError")

patron_info(f, args, env) ==
    LET f0 == Enter(f, "patron_info") IN
    IF Len(args) = 0
    THEN Return(Say(f0, "stdout", "Patron barcode required", <<>>),
                "patron_info", "False")
    ELSE IF f0.client = NoClient THEN Raise(f0, "AttributeError")
    ELSE
      LET f1 == Called(f0, "patron_info_request", env.patron) IN
      IF env.patron = "resp"
      THEN Return(Say(f1, "stdout", "repr(resp)", <<>>), "patron_info", "True")
      ELSE Raise(f1, "ClientError")

Apply(fn, f, args, env) ==
    CASE fn = "help" -> help(f, args, env)
      [] fn = "echo" -> echo(f, args, env)
      [] fn = "exit" -> exit(f, args, env)
      [] fn = "connect" -> connect(f, args, env)
      [] fn = "login" -> login(f, args, env)
      [] fn = "status" -> status(f, args, env)
      [] fn = "start" -> start(f, args, env)
      [] OTHER -> patron_info(f, args, env)

\* run without the membership test: an unregistered name is a KeyError.
run_unchecked(f, ln, env) ==
    LET split == shlex_split(ln) IN
    IF split.exc # NoExc THEN Raise(f, split.exc)
    ELSE IF split.tokens = <<>> THEN Raise(f, "IndexError")
    ELSE
      LET command == split.tokens[1]
          args == Tail(split.tokens)
          name == IF Len(command) = 1 THEN command[1] ELSE ""
      IN
      IF Len(command) # 1 \/ name \notin DOMAIN commands
      THEN Raise(f, "KeyError")
      ELSE Apply(commands[name].fn, f, args, env)

\* run handing the handler every token, the command name included.
run_keeps_name(f, ln, env) ==
    LET split == shlex_split(ln) IN
    IF split.exc # NoExc THEN Raise(f, split.exc)
    ELSE IF split.tokens = <<>> THEN Raise(f, "IndexError")
    ELSE
      LET command == split.tokens[1]
          name == IF Len(command) = 1 THEN command[1] ELSE ""
      IN
      IF Len(command) # 1 \/ name \notin DOMAIN commands
      THEN Say(f, "stderr", "Command not found: {0}", <<command>>)
      ELSE Apply(commands[name].fn, f, split.tokens, env)

run(f, ln, env) ==
    LET split == shlex_split(ln) IN
    IF split.exc # NoExc THEN Raise(f, split.exc)
    ELSE IF split.tokens = <<>> THEN Raise(f, "IndexError")
    ELSE
      LET command == split.tokens[1]
          args == Tail(split.tokens)
          name == IF Len(command) = 1 THEN command[1] ELSE ""
      IN
      IF Len(command) # 1 \/ name \notin DOMAIN commands
      THEN Say(f, "stderr", "Command not found: {0}", <<command>>)
      ELSE Apply(commands[name].fn, f, args, env)

\* Outcomes an execution of fn can consult; the others are held at one
\* value, since no call is made that would draw them.
Consults(fn) ==
    CASE fn = "connect" -> {"conn", "reclaim"}
      [] fn = "login" -> {"login"}
      [] fn = "status" -> {"status"}
      [] fn = "start" -> {"conn", "reclaim", "login", "status"}
      [] fn = "patron_info" -> {"patron"}
      [] OTHER -> {}

EnvsFor(fn) ==
    [conn : IF "conn" \in Consults(fn) THEN ConnectOutcomes ELSE {"ok"},
     reclaim : IF "reclaim" \in Consults(fn) THEN Reclaims ELSE {TRUE},
     login : IF "login" \in Consults(fn) THEN LoginOutcomes ELSE {"true"},
     status : IF "status" \in Consults(fn) THEN StatusOutcomes ELSE {"Y"},
     patron : IF "patron" \in Consults(fn) THEN PatronOutcomes ELSE {"resp"}]

\* The handler a line reaches, "" when it reaches none.
HandlerOf(ln) ==
    LET split == shlex_split(ln) IN
    IF split.exc # NoExc \/ split.tokens = <<>> THEN ""
    ELSE IF Len(split.tokens[1]) # 1 THEN ""
    ELSE IF split.tokens[1][1] \notin DOMAIN commands THEN ""
    ELSE commands[split.tokens[1][1]].fn

\* ------------------------------------------------------------ the program
Init ==
    /\ pc = "read_ops"
    /\ exit_status = -1
    /\ exit_cause = ""
    /\ argv \in Argvs
    /\ config = ConfigHandler_init
    /\ commands = CommandRunner_init.map
    /\ commands_sorted = CommandRunner_init.sorted
    /\ client = NoClient
    /\ made = 0
    /\ open = {}
    /\ last_connect = "never"
    /\ ran = ""
    /\ line = <<>>
    /\ prev_client = NoClient
    /\ out = <<>>
    /\ calls = <<>>
    /\ invoked = <<>>
    /\ returned = <<>>
    /\ ret = "None"
    /\ exc = NoExc

Terminate(code, cause) ==
    /\ pc' = "terminated"
    /\ exit_status' = code
    /\ exit_cause' = cause

NoExecution ==
    /\ ran' = ""
    /\ line' = <<>>
    /\ prev_client' = NoClient
    /\ out' = <<>>
    /\ calls' = <<>>
    /\ invoked' = <<>>
    /\ returned' = <<>>
    /\ ret' = "None"
    /\ exc' = NoExc

\* The state after an execution that ended in frame r; an exception leaves
\* the main program, SystemExit with its code and any other with status 1.
Executed(how, ln, r) ==
    /\ r.made <= MaxClients
    /\ ran' = how
    /\ line' = ln
    /\ prev_client' = client
    /\ client' = r.client
    /\ made' = r.made
    /\ open' = r.open
    /\ last_connect' = r.last_connect
    /\ out' = r.out
    /\ calls' = r.calls
    /\ invoked' = r.invoked
    /\ returned' = r.returned
    /\ ret' = r.ret
    /\ exc' = r.exc
    /\ IF r.exc = NoExc
       THEN pc' = "interact" /\ UNCHANGED <<exit_status, exit_cause>>
       ELSE IF r.exc = "SystemExit"
       THEN Terminate(0, "SystemExit")
       ELSE Terminate(1, "Traceback")

\* config.read_ops()
ReadOps ==
    /\ pc = "read_ops"
    /\ LET r == read_ops_loop(config, argv, 1) IN
       IF \E i \in 1..Len(argv) : argv[i] = "-x"
       THEN Terminate(2, "SystemExit") /\ UNCHANGED config
       ELSE IF r.usage
       THEN Terminate(0, "SystemExit") /\ UNCHANGED config
       ELSE /\ pc' = "setup"
            /\ config' = r.conf
            /\ UNCHANGED <<exit_status, exit_cause>>
    /\ UNCHANGED <<argv, commands, commands_sorted, client, made, open,
                   last_connect, ran, line, prev_client, out, calls, invoked,
                   returned, ret, exc>>

\* config.setup()
Setup ==
    /\ pc = "setup"
    /\ \/ /\ Terminate(1, "Traceback")
          /\ UNCHANGED config
       \/ \E file \in ConfigFiles :
            /\ config' = setup(config, file)
            /\ pc' = "autostart"
            /\ UNCHANGED <<exit_status, exit_cause>>
    /\ UNCHANGED <<argv, commands, commands_sorted, client, made, open,
                   last_connect, ran, line, prev_client, out, calls, invoked,
                   returned, ret, exc>>

\* if config.autostart: runner.start()
Autostart ==
    /\ pc = "autostart"
    /\ config.autostart
    /\ \E env \in EnvsFor("start") :
         Executed("autostart", <<>>, start(Frame(client, made, open, last_connect), <<>>, env))
    /\ UNCHANGED <<argv, config, commands, commands_sorted>>

SkipAutostart ==
    /\ pc = "autostart"
    /\ ~config.autostart
    /\ pc' = "interact"
    /\ UNCHANGED <<exit_status, exit_cause, argv, config, commands,
                   commands_sorted, client, made, open, last_connect, ran,
                   line, prev_client, out, calls, invoked, returned, ret, exc>>

\* Console.interact: the prompt is written and a line awaited
Prompt ==
    /\ pc = "interact"
    /\ pc' = "raw_input"
    /\ NoExecution
    /\ UNCHANGED <<exit_status, exit_cause, argv, config, commands,
                   commands_sorted, client, made, open, last_connect>>

\* RunSource with a connect that stores the parsed port back into the
\* configuration.
RunSource_stores_port ==
    /\ pc = "raw_input"
    /\ \E ln \in Lines : \E env \in EnvsFor(HandlerOf(ln)) :
         LET r == run(Frame(client, made, open, last_connect), ln, env) IN
         /\ Executed("run", ln, r)
         /\ config' = IF \E i \in 1..Len(r.calls) : r.calls[i].method = "Client"
                       THEN [config EXCEPT !.port = Some(<<"0">>)]
                       ELSE config
    /\ UNCHANGED <<argv, commands, commands_sorted>>

\* a line arrives: push(line) -> runsource -> runner.run(line)
RunSource ==
    /\ pc = "raw_input"
    /\ \E ln \in Lines : \E env \in EnvsFor(HandlerOf(ln)) :
         Executed("run", ln, run(Frame(client, made, open, last_connect), ln, env))
    /\ UNCHANGED <<argv, config, commands, commands_sorted>>

\* end of input: raw_input raises EOFError and interact returns
EndOfInput ==
    /\ pc = "raw_input"
    /\ Terminate(0, "EOF")
    /\ UNCHANGED <<argv, config, commands, commands_sorted, client, made, open,
                   last_connect, ran, line, prev_client, out, calls, invoked,
                   returned, ret, exc>>

Next ==
    \/ ReadOps
    \/ Setup
    \/ Autostart
    \/ SkipAutostart
    \/ Prompt
    \/ RunSource
    \/ EndOfInput

Spec == Init /\ [][Next]_vars

\* ------------------------------------------------------------ observations
\* The last execution was run(line), and how the line tokenises.
Split == shlex_split(line)
Tokenised == ran = "run" /\ Split.exc = NoExc
HasCommand == Tokenised /\ Split.tokens # <<>>
FirstToken == Split.tokens[1]
LineArgs == Tail(Split.tokens)
RegisteredTokens == {<<CommandNames[i]>> : i \in 1..Len(CommandNames)}
Typed(name) == HasCommand /\ FirstToken = <<name>>

Texts(o) == [i \in 1..Len(o) |-> o[i].text]
Methods(cs) == {cs[i].method : i \in 1..Len(cs)}
Entered(fn) == \E i \in 1..Len(invoked) : invoked[i] = fn
ReturnedWith(fn, r) ==
    \E i \in 1..Len(returned) : returned[i] = [fn |-> fn, ret |-> r]
ClientRaisedIn(methods) ==
    \E i \in 1..Len(calls) : calls[i].method \in methods /\ calls[i].outcome = "raise"
IsPrefix(a, b) == Len(a) <= Len(b) /\ a = SubSeq(b, 1, Len(a))

NotFound(tok) ==
    [stream |-> "stderr", text |-> "Command not found: {0}", data |-> <<tok>>]

\* ------------------------------------------------------------------ claims

\* C1: a line whose first token is not one of the nine registered names
\* (compared case-sensitively) makes run report CommandNotFound on the error
\* stream and nothing else: no exception, no handler, no call into the
\* client, the session handle as before, and the loop goes on to the next
\* line.
C1_UnknownCommandReported ==
    (HasCommand /\ FirstToken \notin RegisteredTokens) =>
        /\ out = <<NotFound(FirstToken)>>
        /\ exc = NoExc
        /\ invoked = <<>>
        /\ calls = <<>>
        /\ client = prev_client
        /\ pc = "interact"

C1_Witness ==
    /\ HasCommand
    /\ FirstToken = <<"Help">>
    /\ prev_client # NoClient
    /\ out = <<NotFound(<<"Help">>)>>
    /\ pc = "interact"

\* C2 (as claimed): a login issued while the latest connect has failed finds
\* the handle empty and reports a failure outcome; nothing is raised out of
\* run.
C2_LoginAfterFailedConnectFails ==
    (ran = "run" /\ invoked = <<"login">> /\ last_connect = "failed") =>
        /\ prev_client = NoClient
        /\ exc = NoExc
        /\ ret = "False"
        /\ pc = "interact"

\* C3: start enters connect, login, status in that order and each at most
\* once; login is entered exactly when connect returned true and status
\* exactly when login returned true, so a failed connect leaves no login and
\* no status call at the client and a failed login no status call; when all
\* three return true their messages are printed in that order.
C3_StartShortCircuits ==
    (ran # "" /\ Len(invoked) > 0 /\ invoked[1] = "start") =>
        /\ Len(invoked) >= 2
        /\ IsPrefix(invoked, <<"start", "connect", "login", "status">>)
        /\ Entered("login") <=> ReturnedWith("connect", "True")
        /\ Entered("status") <=> ReturnedWith("login", "True")
        /\ ~ReturnedWith("connect", "True") =>
              Methods(calls) \cap {"login", "sc_status"} = {}
        /\ ~ReturnedWith("login", "True") => "sc_status" \notin Methods(calls)
        /\ (ReturnedWith("connect", "True") /\ ReturnedWith("login", "True")
              /\ ReturnedWith("status", "True")) =>
              Texts(out) = <<"Connect OK", "Login OK", "Server is online">>

C3_Witness ==
    /\ ran = "run"
    /\ Typed("start")
    /\ invoked = <<"start", "connect">>
    /\ ReturnedWith("connect", "False")
    /\ calls = <<[method |-> "Client", outcome |-> "ok"],
                 [method |-> "connect", outcome |-> "raise"]>>

\* C4 (as claimed): the connect command never raises; whenever it does not
\* succeed it prints the unable-to-connect message, leaves the handle empty
\* and returns failure.
C4_ConnectNeverRaises ==
    (ran = "run" /\ invoked = <<"connect">>) =>
        /\ exc = NoExc
        /\ \/ ret = "True"
           \/ /\ ret = "False"
              /\ client = NoClient
              /\ Texts(out) = <<"Unable to connect to server {0} port {1}">>

\* C5 (as claimed): a line with no token (empty, blank or comment only) does
\* nothing: no handler, no client call, nothing printed, the handle as
\* before, no exception, and the loop goes on.
C5_BlankLineDoesNothing ==
    (Tokenised /\ Split.tokens = <<>>) =>
        /\ exc = NoExc
        /\ invoked = <<>>
        /\ calls = <<>>
        /\ out = <<>>
        /\ client = prev_client
        /\ pc = "interact"

\* C6: patron-info without an argument returns failure with the
\* barcode-required message, makes no call into the client and leaves the
\* handle as it was, whether or not a handle is present.
C6_PatronInfoNeedsBarcode ==
    (Typed("patron-info") /\ LineArgs = <<>>) =>
        /\ ret = "False"
        /\ exc = NoExc
        /\ Texts(out) = <<"Patron barcode required">>
        /\ calls = <<>>
        /\ client = prev_client
        /\ pc = "interact"

C6_Witness ==
    /\ Typed("patron-info")
    /\ LineArgs = <<>>
    /\ prev_client = NoClient
    /\ ret = "False"
    /\ invoked = <<"patron_info">>

\* C7 (as claimed): with an empty handle, status and patron-info <barcode>
\* report a failure outcome and return without raising.
C7_EmptyHandleIsReported ==
    (/\ ran = "run"
     /\ prev_client = NoClient
     /\ \/ invoked = <<"status">>
        \/ invoked = <<"patron_info">> /\ LineArgs # <<>>) =>
        /\ exc = NoExc
        /\ ret = "False"
        /\ pc = "interact"

\* C8 (as claimed): with a handle present, an exception raised by the client
\* inside login, status or patron-info does not leave run; the loop goes on.
C8_ClientErrorContained ==
    (/\ ran = "run"
     /\ prev_client # NoClient
     /\ ClientRaisedIn({"login", "sc_status", "patron_info_request"})) =>
        /\ exc = NoExc
        /\ pc = "interact"

\* C9 (as claimed): executing a line ends the process exactly when its
\* command is exit or quit, and then with status 0.
C9_OnlyExitTerminates ==
    ran = "run" =>
        /\ pc = "terminated" => (Typed("exit") \/ Typed("quit")) /\ exit_status = 0
        /\ (Typed("exit") \/ Typed("quit")) => pc = "terminated" /\ exit_status = 0

\* C10 (as claimed): no client other than the one held as the session handle
\* has an open transport.
C10_OneLiveClient ==
    /\ Cardinality(open) <= 1
    /\ open \subseteq {client}

\* C11: help prints, after its heading, one line per command in the order
\* help, echo, exit, quit, connect, login, status, start, patron-info, each
\* once; commands_sorted is that list in every state, whatever has been
\* executed; help returns True, makes no client call and leaves the handle.
C11_HelpInRegistrationOrder ==
    /\ commands_sorted = CommandNames
    /\ Typed("help") =>
         /\ ret = "True"
         /\ exc = NoExc
         /\ Len(out) = Len(CommandNames) + 1
         /\ out[1].text = "Commands:"
         /\ \A i \in 1..Len(CommandNames) :
              out[i + 1].data[1] = <<CommandNames[i]>>
         /\ calls = <<>>
         /\ client = prev_client
         /\ pc = "interact"

C11_Witness ==
    /\ Typed("help")
    /\ prev_client # NoClient
    /\ ret = "True"
    /\ Len(out) = 10
    /\ out[10].data[1] = <<"patron-info">>

\* C12 (as claimed): what run('start') returns is truthy exactly when
\* connect, login and status all returned True.
C12_StartReturnsConjunction ==
    (Typed("start") /\ exc = NoExc) =>
        (ret = "True" <=>
            /\ ReturnedWith("connect", "True")
            /\ ReturnedWith("login", "True")
            /\ ReturnedWith("status", "True"))

\* C13 (as claimed): echo returns the success indicator for every argument
\* list and every session state, as help does.
C13_EchoSucceeds ==
    Typed("echo") => (exc = NoExc /\ ret = "True")

\* C14: echo prints exactly the tokens that follow the command name, in
\* order: for a line "echo w1 .. wn" of plain words the list [w1, .., wn],
\* and in general the line's tokens after the first; it makes no client
\* call and leaves the handle as it was.
EchoOf(as) ==
    [stream |-> "stdout", text |-> "echo args={0}", data |-> as]

C14_EchoArgsVerbatim ==
    /\ Typed("echo") =>
         /\ out = <<EchoOf(LineArgs)>>
         /\ exc = NoExc
         /\ calls = <<>>
         /\ client = prev_client
         /\ pc = "interact"
    /\ \A as \in ArgLists :
         (ran = "run" /\ line = <<"echo">> \o ArgText(as)) =>
             out = <<EchoOf([i \in 1..Len(as) |-> <<as[i]>>])>>

C14_Witness ==
    /\ ran = "run"
    /\ line = <<"echo", SP, "a", SP, "b">>
    /\ out = <<EchoOf(<<<<"a">>, <<"b">>>>)>>
    /\ prev_client # NoClient
    /\ client = prev_client

\* C15: with a handle present, the status command makes exactly one client
\* call, the status request; when a response arrives it returns True with
\* the online message if online_status is "Y", and otherwise returns False
\* after the negative message and the raw response; the handle is kept.
C15_StatusDecidedByY ==
    (ran = "run" /\ invoked = <<"status">> /\ prev_client # NoClient) =>
        /\ Len(calls) = 1
        /\ calls[1].method = "sc_status"
        /\ client = prev_client
        /\ calls[1].outcome = "Y" =>
             /\ ret = "True"
             /\ Texts(out) = <<"Server is online">>
             /\ pc = "interact"
        /\ calls[1].outcome \notin {"Y", "raise"} =>
             /\ ret = "False"
             /\ Texts(out) = <<"Server is NOT online", "repr(resp)">>
             /\ pc = "interact"
        /\ ret = "True" => calls[1].outcome = "Y"

C15_Witness ==
    /\ ran = "run"
    /\ invoked = <<"status">>
    /\ client # NoClient
    /\ calls = <<[method |-> "sc_status", outcome |-> "N"]>>
    /\ ret = "False"

\* C16 (as claimed): nothing executes before the options are read and the
\* configuration loaded, and an autostart's start, however its steps end, is
\* followed by the interactive loop.
C16_BootstrapThenLoop ==
    /\ ran # "" => pc \notin {"read_ops", "setup", "autostart"}
    /\ ran = "autostart" => pc = "interact"

\* C17 (as claimed): a line that is not well formed (an unclosed quotation)
\* is still one complete line with one outcome: nothing is raised out of
\* run and the loop goes on.
C17_InvalidLineContained ==
    (ran = "run" /\ Split.exc # NoExc) =>
        /\ exc = NoExc
        /\ pc = "interact"

\* C18: once the configuration is loaded, no step changes it: every field,
\* autostart and the file path included, keeps its value through every
\* command, autostart's start included.
C18_ConfigNotMutated ==
    [][pc \notin {"read_ops", "setup"} => config' = config]_vars

C18_Witness ==
    /\ ran = "run"
    /\ Typed("connect")
    /\ ret = "True"
    /\ prev_client # NoClient
    /\ config.port = Some(<<"7", "0">>)
    /\ config.server = Some("sip.example")

\* C19: an execution that does not enter connect leaves the session handle
\* as it was, whether it succeeds, fails or raises; and the handle is
\* non-empty exactly when the latest connect attempt succeeded.
C19_OnlyConnectSetsHandle ==
    /\ (ran # "" /\ ~Entered("connect")) => client = prev_client
    /\ client # NoClient <=> last_connect = "ok"

C19_Witness ==
    /\ ran = "run"
    /\ invoked = <<"login">>
    /\ ret = "False"
    /\ prev_client # NoClient
    /\ client = prev_client
    /\ last_connect = "ok"

\* C20: a connect that fails while a session handle is held leaves the
\* handle empty: the earlier session is not kept.
C20_FailedConnectDropsSession ==
    (ran = "run" /\ prev_client # NoClient /\ ReturnedWith("connect", "False")) =>
        /\ client = NoClient
        /\ last_connect = "failed"

C20_Witness ==
    /\ ran = "run"
    /\ Typed("connect")
    /\ prev_client # NoClient
    /\ ret = "False"
    /\ client = NoClient

====
